---- MODULE Spec2Model ----
(***************************************************************************)
(* The asset store of packages/shared/assetdb.ts: a directory per          *)
(* (userId, assetId) holding a payload file asset.bin[.zst|.lz4|.gz] and a *)
(* metadata.json sidecar, written through compress() and read back through *)
(* getDataType() / decompress().                                           *)
(***************************************************************************)
EXTENDS Integers, Sequences, FiniteSets, TLC

VARIABLES
    config,     \* COMPRESSION_TYPE of the running process
    userDirs,   \* the users whose directory ROOT_PATH/<userId> exists
    dirs,       \* (userId, assetId) -> the asset directory's contents
    srcFiles,   \* files outside the store handed to saveAssetFromFile
    last,       \* the operation that ran last: its arguments and its result
    prev,       \* the read that ran before the last restart, disk untouched since
    saved,      \* history: what the latest successful saveAsset of a pair was given
    fresh,      \* history: the store holds only saves of distinct pairs
    ops,        \* number of mutating operations so far
    procs       \* the calls in flight: per caller, the call and where it stands

vars == <<config, userDirs, dirs, srcFiles, last, prev, saved, fresh, ops, procs>>

-----------------------------------------------------------------------------
(* Bounds of the model.                                                    *)

\* longest plain input buffer
MaxLen == 2
\* number of mutating operations (saves, deletes, restarts) in one behaviour
\* of the store with several users and assets
MaxOps == 3
\* the same for the behaviours of one asset under every codec and input
MaxCodecOps == 2
\* number of calls the concurrent callers start in one behaviour
MaxConcCalls == 3
\* longest buffer handed to getDataType on its own
MaxDetectLen == 4

-----------------------------------------------------------------------------
(* Bytes and buffers.  A Buffer is a sequence of bytes 0..255.             *)

Min(a, b) == IF a < b THEN a ELSE b
Max(a, b) == IF a > b THEN a ELSE b

\* the content of a file that does not exist (no byte is negative)
NoFile == <<-1>>

\* Buffer.alloc(n): n zero bytes
BufferAlloc(n) == [i \in 1..n |-> 0]

\* a relative index of Buffer.subarray: negative counts from the end, and the
\* result is clamped to the buffer
ClampIndex(i, len) == IF i < 0 THEN Max(len + i, 0) ELSE Min(i, len)

\* buf.subarray(start, end)
Subarray(buf, start, end) ==
    LET s == ClampIndex(start, Len(buf))
        e == ClampIndex(end, Len(buf))
    IN  IF e <= s THEN <<>> ELSE SubSeq(buf, s + 1, e)

-----------------------------------------------------------------------------
(* The codecs.                                                             *)

ZstdHeader == <<40, 181, 47, 253>>      \* 28 B5 2F FD
GzipHeader == <<31, 139>>               \* 1F 8B
Lz4Header  == <<4, 34, 77, 24>>         \* 04 22 4D 18

\* zstd.compress: a frame is the magic number, the content size and the
\* content as one raw block
ZstdCompress(data) == ZstdHeader \o <<Len(data)>> \o data

\* zstd.decompress accepts exactly the well-formed frames
ZstdIsFrame(data) ==
    /\ Len(data) >= 5
    /\ SubSeq(data, 1, 4) = ZstdHeader
    /\ data[5] = Len(data) - 5

ZstdDecompress(data) == SubSeq(data, 6, Len(data))

\* lz4.encodeBlockHC: a raw block without frame header; an input shorter
\* than 13 bytes is emitted as one sequence of literals: the token (literal
\* length in the high nibble) and the literals
Lz4EncodeBlock(data) == <<16 * Len(data)>> \o data

\* lz4.decodeBlock(data, output) with output = Buffer.alloc(data.length):
\* the number of bytes decoded into output, or a negative number, the offset
\* of the error, when the block is malformed.  A block that is one sequence
\* of literals decodes to them; a token without literals is followed by a
\* match offset, which is invalid at the start of the output: -(i - 2) at
\* i = 3.
Lz4DecodeBlockSize(data) ==
    IF Len(data) = 0 THEN 0
    ELSE LET lit == data[1] \div 16
         IN  IF lit >= 1 /\ lit < 15 /\ Len(data) = 1 + lit THEN lit ELSE 0 - 1

\* the output buffer after lz4.decodeBlock
Lz4DecodeBlockOutput(data) ==
    LET size == Lz4DecodeBlockSize(data)
    IN  IF size > 0
        THEN SubSeq(data, 2, 1 + size) \o BufferAlloc(Len(data) - size)
        ELSE BufferAlloc(Len(data))

\* compress(data, type): [threw, out, ext]; libFails says that the codec
\* library's compression call fails
compress(data, type, libFails) ==
    CASE type = "zstd" ->
            IF libFails THEN [threw |-> TRUE, out |-> <<>>, ext |-> ""]
            ELSE [threw |-> FALSE, out |-> ZstdCompress(data), ext |-> ".zst"]
      [] type = "lz4" ->
            IF libFails THEN [threw |-> TRUE, out |-> <<>>, ext |-> ""]
            ELSE [threw |-> FALSE, out |-> Lz4EncodeBlock(data), ext |-> ".lz4"]
      [] type = "gzip" ->
            \* the callback's return values are dropped; the function has
            \* returned before it runs
            [threw |-> FALSE, out |-> data, ext |-> ""]
      [] OTHER -> [threw |-> FALSE, out |-> data, ext |-> ""]

\* mutant of getDataType: the codec is taken from the configuration
getDataTypeFromConfig(data) == IF config = "none" THEN "" ELSE config

\* mutant of getDataType: the length is not looked at
getDataTypeAnyLength(data) ==
    IF Subarray(data, 0, 4) = ZstdHeader THEN "zstd"
    ELSE IF Subarray(data, 0, 2) = GzipHeader THEN "gzip"
    ELSE IF Subarray(data, 0, 4) = Lz4Header THEN "lz4"
    ELSE ""

getDataType(data) ==
    IF Len(data) < 4 THEN ""
    ELSE IF Subarray(data, 0, 4) = ZstdHeader THEN "zstd"
    ELSE IF Subarray(data, 0, 2) = GzipHeader THEN "gzip"
    ELSE IF Subarray(data, 0, 4) = Lz4Header THEN "lz4"
    ELSE ""

decompress(data, type) ==
    CASE type = "zstd" ->
            IF ZstdIsFrame(data) THEN ZstdDecompress(data) ELSE data
      [] type = "lz4" ->
            Subarray(Lz4DecodeBlockOutput(data), 0, Lz4DecodeBlockSize(data))
      [] type = "gzip" -> data
      [] OTHER -> data

-----------------------------------------------------------------------------
(* Content types and metadata.                                             *)

IMAGE_ASSET_TYPES == {"image/jpeg", "image/png", "image/webp"}

\* mutant of SUPPORTED_UPLOAD_ASSET_TYPES: videos may be uploaded as well
UploadTypesWithVideo ==
    IMAGE_ASSET_TYPES \cup {"text/html", "application/pdf", "video/mp4"}

SUPPORTED_UPLOAD_ASSET_TYPES ==
    IMAGE_ASSET_TYPES \cup {"text/html", "application/pdf"}

SUPPORTED_BOOKMARK_ASSET_TYPES == IMAGE_ASSET_TYPES \cup {"application/pdf"}

\* mutant of SUPPORTED_ASSET_TYPES: an archive type slipped into the list
SupportedAssetTypesWithZip ==
    SUPPORTED_UPLOAD_ASSET_TYPES \cup {"text/html", "video/mp4", "application/zip"}

SUPPORTED_ASSET_TYPES ==
    SUPPORTED_UPLOAD_ASSET_TYPES \cup {"text/html", "video/mp4"}

\* null and undefined in a number-typed position (originalSize, start, end)
NullNum == -1
UndefinedNum == -2
\* null and undefined in the position of fileName
NullName == "null"
UndefinedName == "undefined"

\* JSON.stringify(metadata): the text of an object; a key whose value is
\* undefined is left out, null is kept
JSONStringify(m) ==
    LET keys == {"contentType"}
                \cup (IF m.fileName = UndefinedName THEN {} ELSE {"fileName"})
                \cup (IF m.originalSize = UndefinedNum THEN {} ELSE {"originalSize"})
    IN  [k \in keys |-> m[k]]

\* zAssetMetadataSchema.parse(JSON.parse(text)): contentType is required,
\* the two nullish keys are undefined when absent
zAssetMetadataSchemaAccepts(json) == "contentType" \in DOMAIN json

zAssetMetadataSchemaParse(json) ==
    [contentType  |-> json.contentType,
     fileName     |-> IF "fileName" \in DOMAIN json
                      THEN json.fileName ELSE UndefinedName,
     originalSize |-> IF "originalSize" \in DOMAIN json
                      THEN json.originalSize ELSE UndefinedNum]

-----------------------------------------------------------------------------
(* The file system under ROOT_PATH.                                        *)

\* the suffixes getAssetPath probes, in its order
Exts == <<"", ".zst", ".lz4", ".gz">>

PayloadNames == {"asset.bin" \o Exts[i] : i \in 1..Len(Exts)}

\* metadata.json when there is no such file
NoSidecar == [absent |-> TRUE]

\* an asset directory: whether it exists, its payload files by name, and the
\* text of metadata.json
NoDir ==
    [exists |-> FALSE, bin |-> [n \in PayloadNames |-> NoFile], meta |-> NoSidecar]

\* mutant of getAssetDir: the asset id is left out of the path
getAssetDirOfUser(userId, assetId) == <<userId, "a1">>

\* path.join(ROOT_PATH, userId, assetId)
getAssetDir(userId, assetId) == <<userId, assetId>>

\* mutant of getAssetPath: the unsuffixed path is returned without a probe
getAssetPathUnprobed(dir) == "asset.bin"

\* getAssetPath(assetDir): the first probed name that exists, or ""
getAssetPath(dir) ==
    LET found == {i \in 1..Len(Exts) : dir.bin["asset.bin" \o Exts[i]] # NoFile}
    IN  IF found = {} THEN ""
        ELSE "asset.bin" \o Exts[CHOOSE i \in found : \A j \in found : i <= j]

-----------------------------------------------------------------------------
(* The arguments the operations are called with.                           *)

Users == {"u1", "u2"}
AssetIds == {"a1", "a2"}
Keys == Users \X AssetIds

\* COMPRESSION_TYPE: the three names compress() knows, and any other value
Codecs == {"zstd", "lz4", "gzip", "none"}

\* plain buffers: the first n bytes of "ABC..."
Plain(n) == [i \in 1..n |-> 64 + i]
PlainInputs == {Plain(n) : n \in 1..MaxLen}

\* buffers that begin with a codec's signature: a zstd frame, and raw data
\* that only starts like a zstd frame, a gzip stream, an lz4 frame
SignatureInputs ==
    {ZstdCompress(<<65>>), ZstdHeader \o <<65>>,
     GzipHeader \o <<65, 66>>, Lz4Header \o <<65>>}

Inputs == PlainInputs \cup SignatureInputs

Metadata(ct, name, size) ==
    [contentType |-> ct, fileName |-> name, originalSize |-> size]

NoMetadata == Metadata("", UndefinedName, UndefinedNum)

\* one metadata per supported content type, among them a file name, nulls and
\* a caller-supplied size that is not the buffer's, and an unsupported type
Screenshot == Metadata("image/png", "screenshot.png", 9)
MetadataArgs ==
    {Metadata("image/jpeg", UndefinedName, UndefinedNum),
     Screenshot,
     Metadata("image/webp", NullName, NullNum),
     Metadata("text/html", UndefinedName, NullNum),
     Metadata("application/pdf", "doc.pdf", UndefinedNum),
     Metadata("video/mp4", UndefinedName, UndefinedNum),
     Metadata("application/zip", UndefinedName, UndefinedNum)}

\* what can go wrong in the file system or the codec library during a call
SaveFaults == {"none", "compress", "writePayload", "writeMetadata"}
CopyFaults == {"none", "copyFile", "writeMetadata", "rm"}
RmFaults == {"none", "rm"}

SrcPaths == {"/tmp/upload"}

\* start and end of createAssetReadStream: absent, or an offset
StartArgs == {UndefinedNum} \cup {0, 1}
EndArgs == {UndefinedNum} \cup {1, 2}

-----------------------------------------------------------------------------
(* The state.                                                              *)

NoSaved == [via |-> "", asset |-> NoFile, metadata |-> NoMetadata]

NoLast ==
    [op |-> "init", userId |-> "", assetId |-> "", asset |-> NoFile,
     metadata |-> NoMetadata, assetPath |-> "", start |-> UndefinedNum,
     end |-> UndefinedNum, fault |-> "none", config |-> "",
     ok |-> TRUE, error |-> "", file |-> NoFile, dataType |-> "",
     data |-> NoFile, outMetadata |-> NoMetadata, size |-> UndefinedNum,
     entries |-> {}]

\* what a read returned: the part of its record that is its result
Outcome(r) ==
    [ok |-> r.ok, error |-> r.error, dataType |-> r.dataType, data |-> r.data,
     outMetadata |-> r.outMetadata]

\* no table of earlier reads is kept
NoPrev == [taken |-> FALSE]

\* the concurrent callers, and a caller with no call in flight
Procs == {1, 2}
NoKey == <<"", "">>
ProcIdle ==
    [pc |-> "idle", key |-> NoKey, call |-> NoLast, pending |-> {},
     start |-> NoDir, file |-> NoFile]

Init ==
    /\ config \in Codecs
    /\ userDirs = {}
    /\ dirs = [k \in Keys |-> NoDir]
    /\ srcFiles = [p \in SrcPaths |-> NoFile]
    /\ last = NoLast
    /\ prev = NoPrev
    /\ saved = [k \in Keys |-> NoSaved]
    /\ fresh = TRUE
    /\ ops = 0
    /\ procs = [p \in Procs |-> ProcIdle]

\* the call and its arguments, before its result is known
Call(op, userId, assetId) ==
    [NoLast EXCEPT !.op = op, !.userId = userId, !.assetId = assetId,
                   !.config = config]

Failed(call, error) == [call EXCEPT !.ok = FALSE, !.error = error]

\* a call that changes the store, or could have
Mutation == /\ ops' = ops + 1
            /\ prev' = NoPrev
            /\ UNCHANGED procs

\* a call that only reads
Observation ==
    UNCHANGED <<config, userDirs, dirs, srcFiles, saved, fresh, ops, prev, procs>>

-----------------------------------------------------------------------------
(* saveAsset and saveAssetFromFile                                         *)

\* the directory after fs.promises.mkdir(assetDir, {recursive: true})
Mkdir(dir) == [dir EXCEPT !.exists = TRUE]

\* the directory after the two promises of Promise.all have settled: a write
\* that fails leaves its file as it was, the other write still lands
WritePair(dir, name, bytes, json, payloadFails, metadataFails) ==
    [dir EXCEPT
        !.bin[name] = IF payloadFails THEN @ ELSE bytes,
        !.meta = IF metadataFails THEN @ ELSE json]

\* mutant of WithOriginalSize: a size the caller supplied is kept
WithCallerSize(metadata, asset) ==
    IF metadata.originalSize = UndefinedNum
    THEN [metadata EXCEPT !.originalSize = Len(asset)]
    ELSE metadata

\* metadata.originalSize = asset.byteLength
WithOriginalSize(metadata, asset) == [metadata EXCEPT !.originalSize = Len(asset)]

SaveAsset(userId, assetId, asset, metadata, fault) ==
    LET call == [Call("saveAsset", userId, assetId) EXCEPT
                    !.asset = asset, !.metadata = metadata, !.fault = fault]
        k == getAssetDir(userId, assetId)
        stored == WithOriginalSize(metadata, asset)
        c == compress(asset, config, fault = "compress")
    IN  /\ fault = "compress" => config # "none"
        /\ IF metadata.contentType \notin SUPPORTED_ASSET_TYPES
           THEN /\ fault = "none"
                /\ last' = Failed(call, "Unsupported asset type")
                /\ Observation
           ELSE /\ Mutation
                /\ userDirs' = userDirs \cup {userId}
                /\ UNCHANGED <<config, srcFiles>>
                /\ IF c.threw
                   THEN /\ dirs' = [dirs EXCEPT ![k] = Mkdir(@)]
                        /\ last' = Failed(call, "compress")
                        /\ saved' = [saved EXCEPT ![k] = NoSaved]
                        /\ fresh' = FALSE
                   ELSE /\ dirs' = [dirs EXCEPT ![k] =
                                WritePair(Mkdir(@), "asset.bin" \o c.ext, c.out,
                                          JSONStringify(stored),
                                          fault = "writePayload",
                                          fault = "writeMetadata")]
                        /\ last' = IF fault \in {"writePayload", "writeMetadata"}
                                   THEN Failed(call, fault)
                                   ELSE [call EXCEPT !.assetPath = "asset.bin" \o c.ext]
                        /\ saved' = [saved EXCEPT ![k] =
                                IF fault \in {"writePayload", "writeMetadata"}
                                THEN NoSaved
                                ELSE [via |-> "saveAsset", asset |-> asset,
                                      metadata |-> metadata]]
                        /\ fresh' = /\ fresh
                                    /\ fault \notin {"writePayload", "writeMetadata"}
                                    /\ ~dirs[k].exists

\* mutant of SourceRemoved: rm runs whether or not the copy succeeded
SourceRemovedAlways(copied, written, rmFails) == ~rmFails

\* whether the source file is removed: only when rm is reached and succeeds
SourceRemoved(copied, written, rmFails) == copied /\ written /\ ~rmFails

SaveAssetFromFile(userId, assetId, assetPath, metadata, fault) ==
    LET call == [Call("saveAssetFromFile", userId, assetId) EXCEPT
                    !.assetPath = assetPath, !.metadata = metadata,
                    !.fault = fault, !.asset = srcFiles[assetPath]]
        k == getAssetDir(userId, assetId)
        copied == srcFiles[assetPath] # NoFile /\ fault # "copyFile"
        written == fault # "writeMetadata"
        removed == SourceRemoved(copied, written, fault = "rm")
    IN  IF metadata.contentType \notin SUPPORTED_ASSET_TYPES
        THEN /\ fault = "none"
             /\ last' = Failed(call, "Unsupported asset type")
             /\ Observation
        ELSE /\ Mutation
             /\ userDirs' = userDirs \cup {userId}
             /\ dirs' = [dirs EXCEPT ![k] =
                    WritePair(Mkdir(@), "asset.bin", srcFiles[assetPath],
                              JSONStringify(metadata), ~copied, ~written)]
             /\ srcFiles' = IF removed THEN [srcFiles EXCEPT ![assetPath] = NoFile]
                            ELSE srcFiles
             /\ last' = IF ~copied THEN Failed(call, "copyFile")
                        ELSE IF ~written THEN Failed(call, "writeMetadata")
                        ELSE IF ~removed THEN Failed(call, "rm")
                        ELSE call
             /\ saved' = [saved EXCEPT ![k] =
                    IF copied /\ written /\ removed
                    THEN [via |-> "saveAssetFromFile", asset |-> srcFiles[assetPath],
                          metadata |-> metadata]
                    ELSE NoSaved]
             /\ fresh' = FALSE
             /\ UNCHANGED config

\* a caller's file appears outside the store (an upload's temporary file)
Upload(assetPath, bytes) ==
    /\ srcFiles[assetPath] # bytes
    /\ srcFiles' = [srcFiles EXCEPT ![assetPath] = bytes]
    /\ last' = [Call("upload", "", "") EXCEPT !.assetPath = assetPath, !.asset = bytes]
    /\ ops' = ops + 1
    /\ UNCHANGED <<config, userDirs, dirs, saved, fresh, prev, procs>>

-----------------------------------------------------------------------------
(* readAsset, createAssetReadStream, readAssetMetadata, getAssetSize       *)

readAsset(userId, assetId) ==
    LET call == Call("readAsset", userId, assetId)
        dir == dirs[getAssetDir(userId, assetId)]
        assetPath == getAssetPath(dir)
        data == dir.bin[assetPath]
        type == getDataType(data)
        found == [call EXCEPT !.assetPath = assetPath]
    IN  IF assetPath = "" THEN Failed(call, "Asset file not found")
        ELSE IF dir.meta = NoSidecar THEN Failed(found, "ENOENT")
        ELSE IF ~zAssetMetadataSchemaAccepts(dir.meta) THEN Failed(found, "ZodError")
        ELSE [found EXCEPT
                !.file = data, !.dataType = type,
                !.data = decompress(data, type),
                !.outMetadata = zAssetMetadataSchemaParse(dir.meta)]

ReadAsset(userId, assetId) ==
    /\ last' = readAsset(userId, assetId)
    /\ Observation

\* the bytes pushed to the stream before the end marker
StreamSlice(decompressedData, start, end) ==
    IF start # UndefinedNum /\ end # UndefinedNum
    THEN Subarray(decompressedData, start, end)
    ELSE decompressedData

createAssetReadStream(userId, assetId, start, end) ==
    LET call == [Call("createAssetReadStream", userId, assetId) EXCEPT
                    !.start = start, !.end = end]
        dir == dirs[getAssetDir(userId, assetId)]
        assetPath == getAssetPath(dir)
        data == dir.bin[assetPath]
        type == getDataType(data)
    IN  IF assetPath = "" THEN Failed(call, "ENOENT")
        ELSE [call EXCEPT
                !.assetPath = assetPath, !.file = data, !.dataType = type,
                !.data = StreamSlice(decompress(data, type), start, end)]

CreateAssetReadStream(userId, assetId, start, end) ==
    /\ last' = createAssetReadStream(userId, assetId, start, end)
    /\ Observation

readAssetMetadata(userId, assetId) ==
    LET call == Call("readAssetMetadata", userId, assetId)
        dir == dirs[getAssetDir(userId, assetId)]
    IN  IF dir.meta = NoSidecar THEN Failed(call, "ENOENT")
        ELSE IF ~zAssetMetadataSchemaAccepts(dir.meta) THEN Failed(call, "ZodError")
        ELSE [call EXCEPT !.outMetadata = zAssetMetadataSchemaParse(dir.meta)]

ReadAssetMetadata(userId, assetId) ==
    /\ last' = readAssetMetadata(userId, assetId)
    /\ Observation

\* mutant of StatSize: a missing size is reported as 0
StatSizeZero(dir) == 0

\* the size getAssetSize falls back to when the sidecar has none
StatSize(dir) == Len(dir.bin[getAssetPath(dir)])

getAssetSize(userId, assetId) ==
    LET m == readAssetMetadata(userId, assetId)
        call == [m EXCEPT !.op = "getAssetSize"]
        dir == dirs[getAssetDir(userId, assetId)]
        size == m.outMetadata.originalSize
    IN  IF ~m.ok THEN call
        ELSE IF size = UndefinedNum \/ size = NullNum
             THEN IF getAssetPath(dir) = "" THEN Failed(call, "ENOENT")
                  ELSE [call EXCEPT !.assetPath = getAssetPath(dir),
                                    !.size = StatSize(dir)]
        ELSE [call EXCEPT !.size = size]

GetAssetSize(userId, assetId) ==
    /\ last' = getAssetSize(userId, assetId)
    /\ Observation

-----------------------------------------------------------------------------
(* deleteAsset, silentDeleteAsset, deleteUserAssets                        *)

\* fs.promises.rm(assetDir, {recursive: true}): fails when there is nothing
\* to remove
deleteAsset(userId, assetId, fault) ==
    LET call == [Call("deleteAsset", userId, assetId) EXCEPT !.fault = fault]
    IN  IF ~dirs[getAssetDir(userId, assetId)].exists THEN Failed(call, "ENOENT")
        ELSE IF fault = "rm" THEN Failed(call, "rm")
        ELSE call

DeleteAsset(userId, assetId, fault) ==
    LET k == getAssetDir(userId, assetId)
        r == deleteAsset(userId, assetId, fault)
    IN  /\ Mutation
        /\ last' = r
        /\ dirs' = IF r.ok THEN [dirs EXCEPT ![k] = NoDir] ELSE dirs
        /\ saved' = IF r.ok THEN [saved EXCEPT ![k] = NoSaved] ELSE saved
        /\ fresh' = (fresh /\ ~r.ok)
        /\ UNCHANGED <<config, userDirs, srcFiles>>

\* mutant of Caught: the error of deleteAsset reaches the caller
Rethrown(call, r) == IF r.ok THEN call ELSE Failed(call, r.error)

\* .catch(() => ({})): whatever deleteAsset did, the call returns normally
Caught(call, r) == call

\* assetId may be undefined; every error of deleteAsset is swallowed
SilentDeleteAsset(userId, assetId, fault) ==
    LET call == [Call("silentDeleteAsset", userId, assetId) EXCEPT !.fault = fault]
    IN  IF assetId = UndefinedName
        THEN /\ fault = "none"
             /\ last' = call
             /\ Observation
        ELSE LET k == getAssetDir(userId, assetId)
                 r == deleteAsset(userId, assetId, fault)
             IN  /\ Mutation
                 /\ last' = Caught(call, r)
                 /\ dirs' = IF r.ok THEN [dirs EXCEPT ![k] = NoDir] ELSE dirs
                 /\ saved' = IF r.ok THEN [saved EXCEPT ![k] = NoSaved] ELSE saved
                 /\ fresh' = (fresh /\ ~r.ok)
                 /\ UNCHANGED <<config, userDirs, srcFiles>>

\* mutant of RemoveUserDir: rm is given the root of the store
RemoveRootDir(userId) == [k \in Keys |-> NoDir]

\* the store after fs.promises.rm(userDir, {recursive: true})
RemoveUserDir(userId) == [k \in Keys |-> IF k[1] = userId THEN NoDir ELSE dirs[k]]

DeleteUserAssets(userId, fault) ==
    LET call == [Call("deleteUserAssets", userId, "") EXCEPT !.fault = fault]
        dirExists == userId \in userDirs
    IN  IF ~dirExists
        THEN /\ fault = "none"
             /\ last' = call
             /\ Observation
        ELSE /\ Mutation
             /\ UNCHANGED <<config, srcFiles>>
             /\ IF fault = "rm"
                THEN /\ last' = Failed(call, "rm")
                     /\ UNCHANGED <<userDirs, dirs, saved, fresh>>
                ELSE /\ last' = call
                     /\ userDirs' = userDirs \ {userId}
                     /\ dirs' = RemoveUserDir(userId)
                     /\ saved' = [k \in Keys |-> IF k[1] = userId THEN NoSaved ELSE saved[k]]
                     /\ fresh' = FALSE

-----------------------------------------------------------------------------
(* getAllAssets                                                            *)

\* mutant of GlobFiles: the pattern lacks the trailing *
GlobFilesUnsuffixed ==
    {f \in Users \X AssetIds \X {"asset.bin"} : dirs[<<f[1], f[2]>>].bin[f[3]] # NoFile}

\* the files the glob /**/**/asset.bin* finds: <<userId, assetId, name>>
GlobFiles ==
    {f \in Users \X AssetIds \X PayloadNames : dirs[<<f[1], f[2]>>].bin[f[3]] # NoFile}

\* what the generator yields for one file
AssetEntry(file) ==
    [file |-> file, userId |-> file[1], assetId |-> file[2],
     metadata |-> readAssetMetadata(file[1], file[2]).outMetadata,
     size |-> getAssetSize(file[1], file[2]).size]

\* a complete run of the generator: it yields an entry per file, in the
\* glob's order, and throws at the first file whose sidecar or size cannot
\* be read
GetAllAssets ==
    LET call == Call("getAllAssets", "", "")
        bad == {f \in GlobFiles : ~getAssetSize(f[1], f[2]).ok}
        good == GlobFiles \ bad
    IN  /\ Observation
        /\ IF bad = {}
           THEN last' = [call EXCEPT !.entries = {AssetEntry(f) : f \in good}]
           ELSE \E yielded \in SUBSET good :
                    last' = Failed([call EXCEPT
                                !.entries = {AssetEntry(f) : f \in yielded}],
                            "ENOENT")

-----------------------------------------------------------------------------
(* The process is started again with another COMPRESSION_TYPE.             *)

\* what every read returns now, kept to compare with the reads after
ReadTable ==
    [taken |-> TRUE,
     read |-> [k \in Keys |-> Outcome(readAsset(k[1], k[2]))],
     stream |-> [x \in Keys \X StartArgs \X EndArgs |->
                    Outcome(createAssetReadStream(x[1][1], x[1][2], x[2], x[3]))]]

Restart(type) ==
    /\ type # config
    /\ config' = type
    /\ ops' = ops + 1
    /\ last' = [Call("restart", "", "") EXCEPT !.config = type]
    /\ prev' = IF prev.taken THEN prev ELSE ReadTable
    /\ UNCHANGED <<userDirs, dirs, srcFiles, saved, fresh, procs>>

-----------------------------------------------------------------------------
(* Spec: the store with several users and assets.                          *)

StoreInputs == {Plain(1), Plain(MaxLen)}
StoreMetadata == {Screenshot, Metadata("application/zip", UndefinedName, UndefinedNum)}

Next ==
    \/ /\ ops < MaxOps
       /\ \/ \E k \in Keys, asset \in StoreInputs, metadata \in StoreMetadata :
                SaveAsset(k[1], k[2], asset, metadata, "none")
          \/ \E k \in Keys : DeleteAsset(k[1], k[2], "none")
          \/ \E u \in Users, a \in AssetIds \cup {UndefinedName}, fault \in RmFaults :
                SilentDeleteAsset(u, a, fault)
          \/ \E u \in Users, fault \in RmFaults : DeleteUserAssets(u, fault)
          \/ \E type \in Codecs : Restart(type)
    \/ \E k \in Keys : ReadAsset(k[1], k[2])
    \/ \E k \in Keys : GetAssetSize(k[1], k[2])
    \/ GetAllAssets

Spec == Init /\ [][Next]_vars

-----------------------------------------------------------------------------
(* SpecCodec: one asset under every codec, input and fault.                *)

CodecUser == "u1"
CodecAsset == "a1"

\* every input, every content type, every fault
SaveArgs ==
    {<<asset, Screenshot, "none">> : asset \in Inputs}
    \cup {<<Plain(MaxLen), metadata, "none">> : metadata \in MetadataArgs}
    \cup {<<Plain(MaxLen), Screenshot, fault>> : fault \in SaveFaults}

CopyArgs ==
    {<<metadata, "none">> : metadata \in MetadataArgs}
    \cup {<<Screenshot, fault>> : fault \in CopyFaults}

\* the files a caller brings: plain, a zstd frame, raw data with a signature
UploadInputs == {Plain(MaxLen), ZstdCompress(<<65>>), Lz4Header \o <<65>>}

NextCodec ==
    \/ /\ ops < MaxCodecOps
       /\ \/ \E x \in SaveArgs : SaveAsset(CodecUser, CodecAsset, x[1], x[2], x[3])
          \/ \E p \in SrcPaths, x \in CopyArgs :
                SaveAssetFromFile(CodecUser, CodecAsset, p, x[1], x[2])
          \/ \E p \in SrcPaths, bytes \in UploadInputs : Upload(p, bytes)
          \/ DeleteAsset(CodecUser, CodecAsset, "none")
          \/ \E type \in Codecs : Restart(type)
    \/ ReadAsset(CodecUser, CodecAsset)
    \/ \E start \in StartArgs, end \in EndArgs :
            CreateAssetReadStream(CodecUser, CodecAsset, start, end)
    \/ ReadAssetMetadata(CodecUser, CodecAsset)
    \/ GetAssetSize(CodecUser, CodecAsset)

SpecCodec == Init /\ [][NextCodec]_vars

-----------------------------------------------------------------------------
(* SpecConc: two callers whose calls overlap.  Every await of a call is a  *)
(* step of its own, and the two promises of Promise.all settle in either   *)
(* order.  A caller starts its next call when the promises of its last     *)
(* call have all settled.                                                  *)

\* the pairs a caller works on: caller 2 on the pair of caller 1 or another
ConcKeys(p) == IF p = 1 THEN {<<"u1", "a1">>} ELSE {<<"u1", "a1">>, <<"u1", "a2">>}

\* the calls caller p may start on pair k: each caller brings its own bytes
ConcCalls(p, k) ==
    {[Call("saveAsset", k[1], k[2]) EXCEPT !.asset = Plain(p), !.metadata = Screenshot],
     [Call("saveAssetFromFile", k[1], k[2]) EXCEPT
        !.asset = Plain(p), !.metadata = Screenshot, !.assetPath = "/tmp/upload"],
     Call("readAsset", k[1], k[2]),
     [Call("createAssetReadStream", k[1], k[2]) EXCEPT !.start = 0, !.end = 1],
     Call("deleteAsset", k[1], k[2])}

\* the directory a call in flight works in
ProcDir(p) == getAssetDir(procs[p].call.userId, procs[p].call.assetId)

\* a step of caller p: only its own record and the store may change
ProcStep(p, rec) ==
    /\ procs' = [procs EXCEPT ![p] = rec]
    /\ UNCHANGED <<config, srcFiles, last, prev, saved, fresh>>

\* the call is made: it runs up to its first await
Begin(p, call) ==
    LET me == procs[p]
        first ==
            CASE call.op \in {"saveAsset", "saveAssetFromFile"} -> "mkdir"
              [] call.op \in {"readAsset", "createAssetReadStream"} -> "locate"
              [] call.op = "deleteAsset" -> "rm"
        unsupported ==
            /\ call.op \in {"saveAsset", "saveAssetFromFile"}
            /\ call.metadata.contentType \notin SUPPORTED_ASSET_TYPES
    IN  /\ me.pc \in {"idle", "done"}
        /\ me.key \in {NoKey, <<call.userId, call.assetId>>}
        /\ ops' = ops + 1
        /\ ProcStep(p, [pc |-> IF unsupported THEN "done" ELSE first,
                        key |-> <<call.userId, call.assetId>>,
                        call |-> IF unsupported
                                 THEN Failed(call, "Unsupported asset type")
                                 ELSE call,
                        pending |-> {},
                        start |-> dirs[<<call.userId, call.assetId>>],
                        file |-> NoFile])
        /\ UNCHANGED <<userDirs, dirs>>

\* mkdir settles; saveAsset sets originalSize and compresses, and both
\* saves start their two writes
MkdirDone(p) ==
    LET me == procs[p]
    IN  /\ me.pc = "mkdir"
        /\ dirs' = [dirs EXCEPT ![ProcDir(p)] = Mkdir(@)]
        /\ userDirs' = userDirs \cup {me.call.userId}
        /\ ProcStep(p, [me EXCEPT !.pc = "write", !.pending = {"payload", "metadata"}])
        /\ UNCHANGED ops

\* the name and the bytes of the payload a save in flight writes
PendingPayload(call) ==
    IF call.op = "saveAsset"
    THEN LET c == compress(call.asset, config, FALSE)
         IN  [name |-> "asset.bin" \o c.ext, bytes |-> c.out]
    ELSE [name |-> "asset.bin", bytes |-> call.asset]

\* the text of the sidecar a save in flight writes
PendingSidecar(call) ==
    IF call.op = "saveAsset"
    THEN JSONStringify(WithOriginalSize(call.metadata, call.asset))
    ELSE JSONStringify(call.metadata)

\* one of the two promises settles: the file is written, or the write fails
\* because the directory is gone; the call returns when both have settled
WriteDone(p, w) ==
    LET me == procs[p]
        k == ProcDir(p)
        lands == dirs[k].exists
        left == me.pending \ {w}
        pay == PendingPayload(me.call)
        call == IF lands THEN me.call ELSE Failed(me.call, "ENOENT")
    IN  /\ me.pc = "write"
        /\ w \in me.pending
        /\ dirs' = IF ~lands THEN dirs
                   ELSE IF w = "payload"
                   THEN [dirs EXCEPT ![k] = WritePair(@, pay.name, pay.bytes, @.meta,
                                                      FALSE, TRUE)]
                   ELSE [dirs EXCEPT ![k] = WritePair(@, pay.name, pay.bytes,
                                                      PendingSidecar(me.call),
                                                      TRUE, FALSE)]
        /\ ProcStep(p, [me EXCEPT
                !.pending = left,
                !.call = IF left = {} /\ call.ok /\ call.op = "saveAsset"
                         THEN [call EXCEPT !.assetPath = pay.name]
                         ELSE call,
                !.pc = IF left # {} THEN "write"
                       ELSE IF call.ok /\ call.op = "saveAssetFromFile" THEN "rmSource"
                       ELSE "done"])
        /\ UNCHANGED <<userDirs, ops>>

\* saveAssetFromFile removes the caller's file, which no other call uses
RmSourceDone(p) ==
    /\ procs[p].pc = "rmSource"
    /\ ProcStep(p, [procs[p] EXCEPT !.pc = "done"])
    /\ UNCHANGED <<userDirs, dirs, ops>>

\* getAssetPath returns; readAsset throws on the empty path, and
\* createAssetReadStream goes on to read it
LocateDone(p) ==
    LET me == procs[p]
        assetPath == getAssetPath(dirs[ProcDir(p)])
    IN  /\ me.pc = "locate"
        /\ ProcStep(p,
                IF assetPath = "" /\ me.call.op = "readAsset"
                THEN [me EXCEPT !.pc = "done",
                                !.call = Failed(@, "Asset file not found")]
                ELSE [me EXCEPT !.pc = "readFile", !.call.assetPath = assetPath])
        /\ UNCHANGED <<userDirs, dirs, ops>>

\* readFile of the payload settles, and the bytes are decoded
ReadFileDone(p) ==
    LET me == procs[p]
        data == IF me.call.assetPath = "" THEN NoFile
                ELSE dirs[ProcDir(p)].bin[me.call.assetPath]
        type == getDataType(data)
    IN  /\ me.pc = "readFile"
        /\ ProcStep(p,
                IF data = NoFile
                THEN [me EXCEPT !.pc = "done",
                                !.call = Failed([@ EXCEPT !.assetPath = ""], "ENOENT")]
                ELSE IF me.call.op = "readAsset"
                THEN [me EXCEPT !.pc = "readSidecar", !.file = data]
                ELSE [me EXCEPT
                        !.pc = "done",
                        !.call = [@ EXCEPT
                            !.file = data, !.dataType = type,
                            !.data = StreamSlice(decompress(data, type),
                                                 me.call.start, me.call.end)]])
        /\ UNCHANGED <<userDirs, dirs, ops>>

\* readFile of metadata.json settles, and readAsset returns
ReadSidecarDone(p) ==
    LET me == procs[p]
        meta == dirs[ProcDir(p)].meta
        type == getDataType(me.file)
    IN  /\ me.pc = "readSidecar"
        /\ ProcStep(p,
                [me EXCEPT
                    !.pc = "done",
                    !.file = NoFile,
                    !.call =
                        IF meta = NoSidecar THEN Failed(@, "ENOENT")
                        ELSE IF ~zAssetMetadataSchemaAccepts(meta)
                        THEN Failed(@, "ZodError")
                        ELSE [@ EXCEPT
                                !.file = me.file, !.dataType = type,
                                !.data = decompress(me.file, type),
                                !.outMetadata = zAssetMetadataSchemaParse(meta)]])
        /\ UNCHANGED <<userDirs, dirs, ops>>

\* rm of the asset directory settles
RmDone(p) ==
    LET me == procs[p]
        k == ProcDir(p)
    IN  /\ me.pc = "rm"
        /\ dirs' = IF dirs[k].exists THEN [dirs EXCEPT ![k] = NoDir] ELSE dirs
        /\ ProcStep(p, [me EXCEPT
                !.pc = "done",
                !.call = IF dirs[k].exists THEN @ ELSE Failed(@, "ENOENT")])
        /\ UNCHANGED <<userDirs, ops>>

NextConc ==
    \/ /\ ops < MaxConcCalls
       /\ \E p \in Procs : \E k \in ConcKeys(p) : \E call \in ConcCalls(p, k) :
                Begin(p, call)
    \/ \E p \in Procs : MkdirDone(p)
    \/ \E p \in Procs, w \in {"payload", "metadata"} : WriteDone(p, w)
    \/ \E p \in Procs : RmSourceDone(p)
    \/ \E p \in Procs : LocateDone(p)
    \/ \E p \in Procs : ReadFileDone(p)
    \/ \E p \in Procs : ReadSidecarDone(p)
    \/ \E p \in Procs : RmDone(p)

SpecConc == Init /\ [][NextConc]_vars

-----------------------------------------------------------------------------
(* SpecDetect: getDataType on its own, over every buffer of signature      *)
(* bytes up to MaxDetectLen, the buffers taken in order of length.         *)

\* the bytes the three magic numbers are made of
DetectBytes == {40, 181, 47, 253, 31, 139, 4, 34, 77, 24}

\* the buffers tried next: the empty one, then the last one with a byte more
DetectInputs ==
    IF last.op = "getDataType"
    THEN {Append(last.file, b) : b \in DetectBytes}
    ELSE {<<>>}

GetDataType(data) ==
    /\ last' = [Call("getDataType", "", "") EXCEPT
                    !.file = data, !.dataType = getDataType(data)]
    /\ Observation

NextDetect == \E data \in DetectInputs : Len(data) <= MaxDetectLen /\ GetDataType(data)

SpecDetect == Init /\ [][NextDetect]_vars

-----------------------------------------------------------------------------
(* The claims.                                                             *)

\* the pair the last call was about
LastKey == <<last.userId, last.assetId>>

\* the pair holds what a successful saveAsset, or saveAssetFromFile, stored
\* last, and nothing has touched the pair since
Stored(k) == saved[k].via # ""

\* B[start..end) of a buffer B, for 0 <= start
Range(B, start, end) ==
    [i \in 1..(IF end > Len(B) THEN Len(B) - start
               ELSE IF end > start THEN end - start ELSE 0) |-> B[start + i]]

\* the payload name the specification gives each configured codec
NameOfCodec(type) ==
    CASE type = "zstd" -> "asset.bin.zst"
      [] type = "lz4" -> "asset.bin.lz4"
      [] type = "gzip" -> "asset.bin.gz"
      [] OTHER -> "asset.bin"

\* the codec a payload name stands for, in getDataType's vocabulary
CodecOfName(name) ==
    CASE name = "asset.bin.zst" -> "zstd"
      [] name = "asset.bin.lz4" -> "lz4"
      [] name = "asset.bin.gz" -> "gzip"
      [] OTHER -> ""

\* the content types of general storage, as the specification lists them
GeneralStorageTypes ==
    {"image/jpeg", "image/png", "image/webp", "text/html", "application/pdf",
     "video/mp4"}

\* C1: a readAsset of a pair after a successful saveAsset of it returns the
\* bytes that were saved, whatever the codec at save and at read time.
C1_RoundTrip ==
    (last.op = "readAsset" /\ saved[LastKey].via = "saveAsset")
        => (last.ok /\ last.data = saved[LastKey].asset)

\* C2: with the disk left as it is, readAsset and createAssetReadStream
\* return after a change of the configured codec what they returned before.
C2_DecodeIgnoresConfig ==
    prev.taken =>
        /\ last.op = "readAsset" => Outcome(last) = prev.read[LastKey]
        /\ last.op = "createAssetReadStream" =>
                Outcome(last) = prev.stream[<<LastKey, last.start, last.end>>]

\* C2 witness: an asset stored as a zstd frame is read, and decoded, by a
\* process configured for gzip.
C2_Witness ==
    /\ prev.taken
    /\ last.op = "readAsset" /\ last.ok
    /\ last.assetPath = "asset.bin.zst" /\ last.dataType = "zstd"
    /\ last.config = "gzip"
    /\ last.data # last.file

\* C3: between calls an asset directory holds a payload file and the sidecar,
\* or neither.
C3_PayloadWithSidecar ==
    \A k \in Keys :
        (\E n \in PayloadNames : dirs[k].bin[n] # NoFile) <=> (dirs[k].meta # NoSidecar)

\* C4: a save or saveAssetFromFile with a content type outside the allow-list
\* of general storage fails with the unsupported-type error and changes
\* nothing on disk: no directory, no payload, no sidecar, the source file kept.
C4_AllowList ==
    [][(/\ last'.op \in {"saveAsset", "saveAssetFromFile"}
        /\ last'.metadata.contentType \notin GeneralStorageTypes)
        => (/\ ~last'.ok
            /\ last'.error = "Unsupported asset type"
            /\ dirs' = dirs /\ userDirs' = userDirs /\ srcFiles' = srcFiles)]_vars

\* C4 witness: saveAssetFromFile of an existing source file was refused for
\* its content type, and there is no directory for the pair.
C4_Witness ==
    /\ last.op = "saveAssetFromFile"
    /\ last.metadata.contentType = "application/zip"
    /\ last.error = "Unsupported asset type"
    /\ srcFiles[last.assetPath] # NoFile
    /\ ~dirs[LastKey].exists

\* C5: saveAssetFromFile removes the source file only when the copy and the
\* sidecar are both in the store; when the copy or the sidecar write fails the
\* call fails and the source file is still there.
C5_SourceKept ==
    [][last'.op = "saveAssetFromFile" =>
        LET p == last'.assetPath
            k == <<last'.userId, last'.assetId>>
        IN  /\ (srcFiles[p] # NoFile /\ srcFiles'[p] = NoFile)
                => (/\ last'.ok
                    /\ dirs'[k].bin["asset.bin"] = srcFiles[p]
                    /\ dirs'[k].meta = JSONStringify(last'.metadata))
            /\ last'.fault \in {"copyFile", "writeMetadata"}
                => (~last'.ok /\ srcFiles' = srcFiles)]_vars

\* C5 witness: the copy of an existing source file failed, the call failed
\* and the source file exists.
C5_Witness ==
    /\ last.op = "saveAssetFromFile"
    /\ last.fault = "copyFile"
    /\ ~last.ok
    /\ last.asset # NoFile
    /\ srcFiles[last.assetPath] = last.asset

\* C6: when the codec's compression fails, saveAsset still succeeds and
\* stores the input bytes as asset.bin, with the sidecar.
C6_CompressFallback ==
    (last.op = "saveAsset" /\ last.fault = "compress")
        => (/\ last.ok
            /\ dirs[LastKey].bin["asset.bin"] = last.asset
            /\ dirs[LastKey].meta # NoSidecar)

\* C7: the payload file a successful saveAsset writes is named after the
\* configured codec, and its leading bytes are the signature of that codec.
C7_SuffixAndSignature ==
    (last.op = "saveAsset" /\ last.ok)
        => (/\ last.assetPath = NameOfCodec(last.config)
            /\ dirs[LastKey].bin[last.assetPath] # NoFile
            /\ getDataType(dirs[LastKey].bin[last.assetPath])
                    = CodecOfName(last.assetPath))

\* C8: createAssetReadStream of a stored asset with content B yields
\* B[start..end) when both bounds are given and B otherwise.
C8_RangeRead ==
    (last.op = "createAssetReadStream" /\ Stored(LastKey))
        => (/\ last.ok
            /\ last.data =
                IF last.start # UndefinedNum /\ last.end # UndefinedNum
                THEN Range(saved[LastKey].asset, last.start, last.end)
                ELSE saved[LastKey].asset)

\* C9: getAssetSize returns the sidecar's originalSize when it is a number;
\* when it is absent or null it returns the length of the located payload
\* file; an asset stored by saveAssetFromFile without a size reports the
\* length of the copied file.
C9_SizeFallback ==
    (last.op = "getAssetSize" /\ dirs[LastKey].meta # NoSidecar) =>
        LET dir == dirs[LastKey]
            hasSize == /\ "originalSize" \in DOMAIN dir.meta
                       /\ dir.meta.originalSize # NullNum
        IN  /\ hasSize => (last.ok /\ last.size = dir.meta.originalSize)
            /\ (~hasSize /\ getAssetPath(dir) # "")
                => (last.ok /\ last.size = Len(dir.bin[getAssetPath(dir)]))
            /\ (/\ saved[LastKey].via = "saveAssetFromFile"
                /\ saved[LastKey].metadata.originalSize \in {NullNum, UndefinedNum})
                => (last.ok /\ last.size = Len(saved[LastKey].asset))

\* C9 witness: the size of an asset that saveAssetFromFile stored with a null
\* originalSize was asked for.
C9_Witness ==
    /\ last.op = "getAssetSize"
    /\ saved[LastKey].via = "saveAssetFromFile"
    /\ saved[LastKey].metadata.originalSize = NullNum
    /\ last.size = Len(saved[LastKey].asset)
    /\ last.size > 0

\* C10: after saves of distinct pairs into an empty store, a run of
\* getAllAssets yields one entry per saved asset, with the pair it was saved
\* under, its sidecar metadata and its size.
C10_Enumeration ==
    (last.op = "getAllAssets" /\ fresh) =>
        LET savedKeys == {k \in Keys : saved[k].via = "saveAsset"}
            entryOf(k) == {e \in last.entries : <<e.userId, e.assetId>> = k}
        IN  /\ last.ok
            /\ Cardinality(last.entries) = Cardinality(savedKeys)
            /\ \A e \in last.entries : <<e.userId, e.assetId>> \in savedKeys
            /\ \A k \in savedKeys :
                /\ Cardinality(entryOf(k)) = 1
                /\ \A e \in entryOf(k) :
                    /\ e.metadata = [saved[k].metadata EXCEPT
                                        !.originalSize = Len(saved[k].asset)]
                    /\ e.size = Len(saved[k].asset)

\* C10 witness: three assets of two users were saved as zstd frames and
\* enumerated.
C10_Witness ==
    /\ last.op = "getAllAssets" /\ fresh /\ last.ok
    /\ Cardinality(last.entries) = 3
    /\ Cardinality({e.userId : e \in last.entries}) = 2
    /\ \A e \in last.entries : e.file[3] = "asset.bin.zst"


\* the payload names the specification knows
KnownPayloadNames == {"asset.bin", "asset.bin.zst", "asset.bin.lz4", "asset.bin.gz"}

\* C11: when the directory of a pair holds no payload file under any known
\* name (no directory, or only the sidecar), getAssetPath reports no match
\* and readAsset fails with the not-found error.
C11_ReadNotFound ==
    (/\ last.op = "readAsset"
     /\ \A n \in KnownPayloadNames : dirs[LastKey].bin[n] = NoFile)
        => (/\ getAssetPath(dirs[LastKey]) = ""
            /\ ~last.ok
            /\ last.error = "Asset file not found")

\* C11 witness: a read of a directory that holds only the sidecar failed with
\* the not-found error.
C11_Witness ==
    /\ last.op = "readAsset"
    /\ dirs[LastKey].exists
    /\ dirs[LastKey].meta # NoSidecar
    /\ \A n \in KnownPayloadNames : dirs[LastKey].bin[n] = NoFile
    /\ last.error = "Asset file not found"


\* C12: silentDeleteAsset never raises. It removes the directory of an asset
\* that exists, returns normally and changes nothing when the asset does not
\* exist or the removal fails, and touches no file when assetId is absent.
C12_SilentDelete ==
    [][last'.op = "silentDeleteAsset" =>
        /\ last'.ok
        /\ last'.assetId = UndefinedName => UNCHANGED <<dirs, userDirs, srcFiles>>
        /\ last'.assetId # UndefinedName =>
            LET k == <<last'.userId, last'.assetId>>
            IN  /\ (dirs[k].exists /\ last'.fault = "none")
                    => dirs' = [dirs EXCEPT ![k] = NoDir]
                /\ (~dirs[k].exists \/ last'.fault = "rm") => dirs' = dirs
                /\ UNCHANGED <<userDirs, srcFiles>>]_vars

\* C12 witness: the removal of an existing asset failed and the call still
\* returned normally.
C12_Witness ==
    /\ last.op = "silentDeleteAsset"
    /\ last.assetId \in AssetIds
    /\ last.fault = "rm"
    /\ dirs[LastKey].meta # NoSidecar
    /\ last.ok


\* C13: deleteUserAssets removes every asset of the user in one step and
\* leaves the assets of every other user as they were; when the user has no
\* directory it returns normally and changes nothing.
C13_DeleteUserAssets ==
    [][(last'.op = "deleteUserAssets" /\ last'.fault = "none") =>
        /\ last'.ok
        /\ \A k \in Keys : dirs'[k] = IF k[1] = last'.userId THEN NoDir ELSE dirs[k]
        /\ last'.userId \notin userDirs'
        /\ last'.userId \notin userDirs => UNCHANGED <<dirs, userDirs, srcFiles>>]_vars

\* C13 witness: two saves and then the removal of one user's directory, the
\* asset of the other user still stored.
C13_Witness ==
    /\ last.op = "deleteUserAssets"
    /\ last.ok
    /\ ops = 3
    /\ \A k \in Keys : k[1] = last.userId => dirs[k] = NoDir
    /\ \E k \in Keys : k[1] # last.userId /\ getAssetPath(dirs[k]) # ""
                        /\ dirs[k].meta # NoSidecar


\* what the call caller p has finished would have done had it run alone on
\* the directory it found when it started
SoloOutcome(p) ==
    LET me == procs[p]
        k == me.key
        call == me.call
        pay == PendingPayload(call)
        written == WritePair(Mkdir(me.start), pay.name, pay.bytes,
                             PendingSidecar(call), FALSE, FALSE)
    IN  CASE call.op \in {"saveAsset", "saveAssetFromFile"} ->
                call.ok /\ dirs[k] = written
          [] call.op = "deleteAsset" ->
                IF me.start.exists THEN call.ok /\ dirs[k] = NoDir
                ELSE ~call.ok /\ dirs[k] = me.start
          [] call.op = "readAsset" ->
                dirs[k] = me.start /\ call = readAsset(k[1], k[2])
          [] call.op = "createAssetReadStream" ->
                /\ dirs[k] = me.start
                /\ call = createAssetReadStream(k[1], k[2], call.start, call.end)

C15_LastWriterWins ==
    (/\ \A p \in Procs : /\ procs[p].pc = "done"
                        /\ procs[p].call.op = "saveAsset"
                        /\ procs[p].call.ok
     /\ procs[1].key = procs[2].key)
        => \E p \in Procs :
            LET pay == PendingPayload(procs[p].call)
            IN  /\ dirs[procs[p].key].bin[pay.name] = pay.bytes
                /\ dirs[procs[p].key].meta = PendingSidecar(procs[p].call)


\* the signatures the specification gives the three codecs
Signature(type) ==
    CASE type = "zstd" -> <<40, 181, 47, 253>>
      [] type = "gzip" -> <<31, 139>>
      [] type = "lz4" -> <<4, 34, 77, 24>>

\* the codecs whose signature the buffer begins with
SignaturesOf(data) ==
    {type \in {"zstd", "gzip", "lz4"} :
        /\ Len(data) >= Len(Signature(type))
        /\ SubSeq(data, 1, Len(Signature(type))) = Signature(type)}

\* C16: getDataType answers none for a buffer shorter than 4 bytes and
\* otherwise the codec whose signature the buffer begins with, or none; no
\* buffer begins with two signatures, so the order of the checks is
\* immaterial.
C16_Detection ==
    last.op = "getDataType" =>
        /\ Cardinality(SignaturesOf(last.file)) <= 1
        /\ last.dataType =
            IF Len(last.file) < 4 \/ SignaturesOf(last.file) = {} THEN ""
            ELSE CHOOSE type \in SignaturesOf(last.file) : TRUE

\* C16 witness: a 4-byte buffer that begins with the gzip signature and goes
\* on with zstd's first bytes is found to be gzip.
C16_Witness ==
    /\ last.op = "getDataType"
    /\ last.file = <<31, 139, 40, 181>>
    /\ last.dataType = "gzip"


\* C17: after a saveAsset that returned normally, originalSize in the
\* sidecar is the byte length of the input buffer, whatever originalSize the
\* caller's metadata carried.
C17_OriginalSize ==
    (last.op = "saveAsset" /\ last.ok) =>
        /\ dirs[LastKey].meta # NoSidecar
        /\ dirs[LastKey].meta.originalSize = Len(last.asset)

\* C17 witness: a save whose caller supplied another originalSize than the
\* length of the buffer.
C17_Witness ==
    /\ last.op = "saveAsset"
    /\ last.ok
    /\ last.metadata.originalSize \notin {UndefinedNum, NullNum, Len(last.asset)}
    /\ dirs[LastKey].meta.originalSize = Len(last.asset)


\* C18: whatever content type a call names, it is in the allow-list of
\* general storage exactly if it is one of the six types the specification
\* lists, and if the upload list or the bookmark list contains it, it is
\* neither video/mp4 nor text/html and the general list contains it too.
C18_AllowLists ==
    LET t == last.metadata.contentType
    IN  /\ t \in SUPPORTED_ASSET_TYPES <=> t \in GeneralStorageTypes
        /\ t \in SUPPORTED_UPLOAD_ASSET_TYPES =>
            (t \notin {"video/mp4", "text/html"} /\ t \in SUPPORTED_ASSET_TYPES)
        /\ t \in SUPPORTED_BOOKMARK_ASSET_TYPES =>
            (t \notin {"video/mp4", "text/html"} /\ t \in SUPPORTED_ASSET_TYPES)

\* C18 as amended: the upload list is the three image types, text/html and
\* application/pdf, so it contains text/html and not video/mp4; the rest is
\* as C18 states, and saveAsset stores exactly the types of the general
\* list.
C18_AllowListsAmended ==
    /\ SUPPORTED_ASSET_TYPES = GeneralStorageTypes
    /\ SUPPORTED_UPLOAD_ASSET_TYPES =
        {"image/jpeg", "image/png", "image/webp", "text/html", "application/pdf"}
    /\ SUPPORTED_BOOKMARK_ASSET_TYPES \cap {"video/mp4", "text/html"} = {}
    /\ SUPPORTED_UPLOAD_ASSET_TYPES \subseteq SUPPORTED_ASSET_TYPES
    /\ SUPPORTED_BOOKMARK_ASSET_TYPES \subseteq SUPPORTED_ASSET_TYPES
    /\ (last.op = "saveAsset" /\ last.fault = "none") =>
            (last.ok <=> last.metadata.contentType \in GeneralStorageTypes)

\* C18 witness: a text/html asset, which the upload list allows, was stored.
C18_Witness ==
    /\ last.op = "saveAsset"
    /\ last.ok
    /\ last.metadata.contentType = "text/html"
    /\ last.metadata.contentType \in SUPPORTED_UPLOAD_ASSET_TYPES
    /\ last.metadata.contentType \notin SUPPORTED_BOOKMARK_ASSET_TYPES


\* the payload files of a directory
PayloadFiles(dir) == {n \in PayloadNames : dir.bin[n] # NoFile}

\* C19: once saveAsset calls, one after the other and with restarts under
\* another codec between them, have stored a pair, its directory holds
\* exactly one payload file, and the file a read decodes is an encoding of
\* the bytes of the most recent save (without which the read cannot return
\* those bytes).
C19_SequentialOverwrite ==
    \A k \in Keys :
        saved[k].via = "saveAsset" =>
            /\ Cardinality(PayloadFiles(dirs[k])) = 1
            /\ (last.op = "readAsset" /\ LastKey = k) =>
                /\ last.ok
                /\ \E type \in Codecs :
                        last.file = compress(saved[k].asset, type, FALSE).out


\* C20: a complete run of getAllAssets yields no two entries for one pair,
\* and every entry is of a pair whose payload file and sidecar exist.
C20_EnumerateOnce ==
    (last.op = "getAllAssets" /\ last.ok) =>
        /\ \A e1, e2 \in last.entries :
                (e1.userId = e2.userId /\ e1.assetId = e2.assetId) => e1 = e2
        /\ \A e \in last.entries :
                /\ PayloadFiles(dirs[<<e.userId, e.assetId>>]) # {}
                /\ dirs[<<e.userId, e.assetId>>].meta # NoSidecar

====
